---- MODULE Spec2Model ----
(***************************************************************************)
(* A model of the proof-carrying verification engine of the constraint-   *)
(* optimization reasoner: the knapsack verifier (src/src/verifiers.py),    *)
(* the output tag parser (src/src/format_utils.py), the retry loop of      *)
(* InferenceEngine.solve (src/src/inference_engine.py), the input          *)
(* validators (src/src/validation.py), the /solve handler                  *)
(* (src/deployment/app.py) and the reference solver                        *)
(* OptimizationDataset._solve_knapsack (src/src/data_loader.py).           *)
(*                                                                         *)
(* Texts are modelled by their lexical structure.  A problem text is a     *)
(* record saying whether it is empty, whether the capacity marker and the  *)
(* items marker are present, the digits after the capacity marker, whether *)
(* the bracketed segment after the items marker is valid JSON, and the     *)
(* decoded item array.  A string handed to json.loads is a sequence of     *)
(* tokens; it decodes only when it is exactly one JSON token.              *)
(*                                                                         *)
(* Specifications: SpecVerify (one call of a verifier, validator or        *)
(* handler operation), SpecLargeValues (the same calls on item values up   *)
(* to 2**31), SpecAlarm (the control flow of a verifier call around the    *)
(* SIGALRM deadline), SpecParse (parse_output), SpecSolve and              *)
(* SpecSolveTemperature (the retry loop), SpecKnapsack (the reference      *)
(* solver).                                                                *)
(***************************************************************************)
EXTENDS Integers, Sequences, FiniteSets, TLC

\* ------------------------------------------------------------------ bounds
MaxItems == 2      \* longest item array of a generated problem text
MaxCap == 3        \* largest capacity of a generated problem text
MaxSel == 2        \* longest candidate list handed to verify_comprehensive
MaxRetries == 3    \* largest max_retries handed to InferenceEngine.solve
MaxTokens == 4     \* longest generator output handed to parse_output, in tokens
MaxWork == 2       \* most steps of computation left in a verifier call's body
MaxCalls == 2      \* most verifier calls made one after the other
MemCells == 12     \* DP-table cells the allocator grants before MemoryError

\* ------------------------------------------------------- generic helpers
\* mutant: an item that fits is always taken
Max_first(a, b) == a

Max(a, b) == IF a >= b THEN a ELSE b

SeqsUpTo(S, n) == UNION { [1..k -> S] : k \in 0..n }

\* ------------------------------------------------------------------ items
\* An element of the decoded item array: a JSON object and the keys it has.
AllFields == {"name", "weight", "value"}

Item(nm, wt, val) ==
    [name |-> nm, weight |-> wt, value |-> val, has |-> AllFields]

ItemLacking(nm, wt, val, field) ==
    [name |-> nm, weight |-> wt, value |-> val, has |-> AllFields \ {field}]

\* item[field] raises KeyError for some item of the array
LacksField(items, field) == \E i \in 1..Len(items) : field \notin items[i].has

\* dict comprehension {item["name"]: item for item in items}: the index of the
\* entry a name is bound to; a later item with the same name replaces an
\* earlier one.
HasName(items, nm) == \E i \in 1..Len(items) : items[i].name = nm

item_map(items, nm) ==
    LET idx == { i \in 1..Len(items) : items[i].name = nm }
    IN  items[CHOOSE i \in idx : \A j \in idx : j <= i]

\* ---------------------------------------------------------- problem text
\* A problem text is held by what the two regular expressions and json.loads
\* find in it.  Python integers are unbounded; to keep totals above 2**31 - 1
\* within reach, a text whose item values are all multiples of valueUnit holds
\* the quotients (valueUnit is 1 for an ordinary text).
ScaledValuesText(unit, cap, its) ==
    [empty |-> FALSE, capMarker |-> TRUE, capacity |-> cap,
     itemsMarker |-> TRUE, itemsJson |-> TRUE, items |-> its,
     valueUnit |-> unit]

ProblemText(cap, its) == ScaledValuesText(1, cap, its)

EmptyProblemText ==
    [empty |-> TRUE, capMarker |-> FALSE, capacity |-> 0,
     itemsMarker |-> FALSE, itemsJson |-> FALSE, items |-> <<>>,
     valueUnit |-> 1]

NoCapacityText(its) ==
    [empty |-> FALSE, capMarker |-> FALSE, capacity |-> 0,
     itemsMarker |-> TRUE, itemsJson |-> TRUE, items |-> its,
     valueUnit |-> 1]

NoItemsText(cap) ==
    [empty |-> FALSE, capMarker |-> TRUE, capacity |-> cap,
     itemsMarker |-> FALSE, itemsJson |-> FALSE, items |-> <<>>,
     valueUnit |-> 1]

BadItemsText(cap) ==
    [empty |-> FALSE, capMarker |-> TRUE, capacity |-> cap,
     itemsMarker |-> TRUE, itemsJson |-> FALSE, items |-> <<>>,
     valueUnit |-> 1]

\* Verifier._parse_problem: (capacity, items), or (None, None)
parse_problem(problem_text) ==
    IF ~problem_text.capMarker
    THEN [ok |-> FALSE, capacity |-> 0, items |-> <<>>, valueUnit |-> 1]
    ELSE IF ~problem_text.itemsMarker
    THEN [ok |-> FALSE, capacity |-> 0, items |-> <<>>, valueUnit |-> 1]
    ELSE IF ~problem_text.itemsJson
    THEN [ok |-> FALSE, capacity |-> 0, items |-> <<>>, valueUnit |-> 1]
    ELSE [ok |-> TRUE, capacity |-> problem_text.capacity,
          items |-> problem_text.items,
          valueUnit |-> problem_text.valueUnit]

\* --------------------------------------------------------- solution text
\* A JSON token: a list of strings, a list with a non-string element, a JSON
\* value that is no list, or text that is no JSON at all.
JsonList(names) == [t |-> "txt", name |-> "", j |-> "list", names |-> names]
JsonNonString == [t |-> "txt", name |-> "", j |-> "nonstr", names |-> <<>>]
JsonNotList == [t |-> "txt", name |-> "", j |-> "notlist", names |-> <<>>]
NotJson == [t |-> "txt", name |-> "", j |-> "invalid", names |-> <<>>]
\* JSON with an integer literal of more than 4300 digits: int() refuses it
\* with a ValueError that is no JSONDecodeError
JsonHugeInt == [t |-> "txt", name |-> "", j |-> "hugeint", names |-> <<>>]

\* json.loads of a string: one JSON token, possibly nothing else
json_loads(s) ==
    IF Len(s) = 1 /\ s[1].t = "txt" THEN s[1] ELSE NotJson

\* mutant: the elements of the list are not checked to be strings
parse_solution_unchecked(solution_data) ==
    LET v == json_loads(solution_data)
    IN  IF v.j = "hugeint" THEN [ok |-> FALSE, names |-> <<>>, raised |-> TRUE]
        ELSE IF v.j = "invalid"
        THEN [ok |-> FALSE, names |-> <<>>, raised |-> FALSE]
        ELSE IF v.j = "notlist"
        THEN [ok |-> FALSE, names |-> <<>>, raised |-> FALSE]
        ELSE [ok |-> TRUE, names |-> v.names, raised |-> FALSE]

\* Verifier._parse_solution: the list of selected names, or None; only
\* json.JSONDecodeError is caught, another ValueError of json.loads leaves it
parse_solution(solution_data) ==
    LET v == json_loads(solution_data)
    IN  IF v.j = "hugeint" THEN [ok |-> FALSE, names |-> <<>>, raised |-> TRUE]
        ELSE IF v.j = "invalid"
        THEN [ok |-> FALSE, names |-> <<>>, raised |-> FALSE]
        ELSE IF v.j = "notlist"
        THEN [ok |-> FALSE, names |-> <<>>, raised |-> FALSE]
        ELSE IF v.j = "nonstr"
        THEN [ok |-> FALSE, names |-> <<>>, raised |-> FALSE]
        ELSE [ok |-> TRUE, names |-> v.names, raised |-> FALSE]

\* ------------------------------------------------------------- the DP
\* dp[i][w] as the loops of verify_optimality and verify_comprehensive fill
\* it: row 0 and column 0 keep the 0 they were allocated with (w starts at 1).
RECURSIVE dp(_, _, _)
dp(items, i, w) ==
    IF i = 0 \/ w = 0 THEN 0
    ELSE LET wt == items[i].weight
             val == items[i].value
         IN  IF wt <= w
             THEN Max(val + dp(items, i - 1, w - wt), dp(items, i - 1, w))
             ELSE dp(items, i - 1, w)

\* [[0 for _ in range(capacity + 1)] for _ in range(n + 1)] raises MemoryError
AllocFails(n, capacity) == (n + 1) * (capacity + 1) > MemCells

\* running totals of the selected items, left to right
RECURSIVE SumField(_, _, _, _)
SumField(items, names, k, f) ==
    IF k = 0 THEN 0
    ELSE SumField(items, names, k - 1, f)
         + (IF f = "weight" THEN item_map(items, names[k]).weight
            ELSE item_map(items, names[k]).value)

AllKnown(items, names) == \A k \in 1..Len(names) : HasName(items, names[k])

\* item_map[name][field] raises KeyError for some selected name
SelectedLacks(items, names, field) ==
    \E k \in 1..Len(names) : field \notin item_map(items, names[k]).has

\* The loop of verify_comprehensive over the selected names, from position k:
\* the first name that is unknown ends it with the INFEASIBLE outcome, the
\* first known name whose item lacks weight or value ends it with KeyError.
RECURSIVE ScanSelected(_, _, _)
ScanSelected(items, names, k) ==
    IF k > Len(names) THEN "ok"
    ELSE IF ~HasName(items, names[k]) THEN "unknown"
    ELSE IF {"weight", "value"} \ item_map(items, names[k]).has # {}
    THEN "KeyError"
    ELSE ScanSelected(items, names, k + 1)

\* 2**31 - 1, the largest total the overflow checks let through
INT_MAX == 2147483647

\* the same bound counted in units: u * n > INT_MAX iff n > INT_MAX \div u
limit_in_units(p, f) ==
    IF f = "value" THEN INT_MAX \div p.valueUnit ELSE INT_MAX

\* total = 0; for name in names: if total > INT_MAX - x: return False; total += x
RECURSIVE Overflows(_, _, _, _)
Overflows(p, names, k, f) ==
    IF k = 0 THEN FALSE
    ELSE Overflows(p, names, k - 1, f)
         \/ SumField(p.items, names, k - 1, f)
              > limit_in_units(p, f)
                - (IF f = "weight" THEN item_map(p.items, names[k]).weight
                   ELSE item_map(p.items, names[k]).value)

\* -------------------------------------------------- verify_comprehensive
Outcome(feas, opt, sw, sv, co, cap, st, g, foc) ==
    [kind |-> "outcome", is_feasible |-> feas, is_optimal |-> opt,
     solution_weight |-> sw, solution_value |-> sv, computed_optimum |-> co,
     capacity |-> cap, status |-> st, gap |-> g, false_optimal_claim |-> foc]

Raised(exc) ==
    [kind |-> exc, is_feasible |-> FALSE, is_optimal |-> FALSE,
     solution_weight |-> 0, solution_value |-> 0, computed_optimum |-> 0,
     capacity |-> 0, status |-> "", gap |-> 0, false_optimal_claim |-> FALSE]

\* mutant: optimality decided by the value alone
comprehensive_optimal_value_only(is_feasible, solution_value, computed_optimum) ==
    solution_value = computed_optimum

comprehensive_optimal(is_feasible, solution_value, computed_optimum) ==
    is_feasible /\ (solution_value = computed_optimum)

verify_comprehensive(problem_text, solution_data, claimed_status) ==
    IF problem_text.empty \/ solution_data = <<>> THEN Raised("ValueError")
    ELSE
    LET p == parse_problem(problem_text)
        s == parse_solution(solution_data)
    IN  IF ~p.ok
        THEN Outcome(FALSE, FALSE, 0, 0, 0, 0, "INFEASIBLE", 0, FALSE)
        ELSE IF s.raised THEN Raised("ValueError")
        ELSE IF ~s.ok
        THEN Outcome(FALSE, FALSE, 0, 0, 0, p.capacity, "INFEASIBLE", 0, FALSE)
        ELSE IF LacksField(p.items, "name") THEN Raised("KeyError")
        ELSE IF ScanSelected(p.items, s.names, 1) = "unknown"
        THEN Outcome(FALSE, FALSE, 0, 0, 0, p.capacity, "INFEASIBLE", 0, FALSE)
        ELSE IF ScanSelected(p.items, s.names, 1) = "KeyError"
        THEN Raised("KeyError")
        ELSE
        LET solution_weight == SumField(p.items, s.names, Len(s.names), "weight")
            solution_value == SumField(p.items, s.names, Len(s.names), "value")
            is_feasible == solution_weight <= p.capacity
            n == Len(p.items)
        IN  IF AllocFails(n, p.capacity)
            THEN Outcome(is_feasible, FALSE, solution_weight, solution_value,
                         0, p.capacity, "BOUNDED", 0, FALSE)
            ELSE IF LacksField(p.items, "weight") \/ LacksField(p.items, "value")
            THEN Raised("KeyError")
            ELSE
            LET computed_optimum == dp(p.items, n, p.capacity)
                is_optimal == comprehensive_optimal(is_feasible, solution_value,
                                                    computed_optimum)
                gap == IF is_feasible THEN computed_optimum - solution_value
                       ELSE 0
                status == IF ~is_feasible THEN "INFEASIBLE"
                          ELSE IF is_optimal THEN "OPTIMAL" ELSE "BOUNDED"
                false_optimal_claim == claimed_status = "OPTIMAL" /\ ~is_optimal
            IN  Outcome(is_feasible, is_optimal, solution_weight,
                        solution_value, computed_optimum, p.capacity, status,
                        gap, false_optimal_claim)

\* ---------------------------------- verify_feasibility, verify_optimality
\* What a call does: it returns a boolean, or raises ValueError
Returns(b) == [raised |-> FALSE, value |-> b]
RaisesValueError == [raised |-> TRUE, value |-> FALSE]

\* mutant: a candidate that fills the capacity exactly is refused
within_capacity_strict(total_weight, capacity) == total_weight < capacity

\* the constraint check that ends verify_feasibility
within_capacity(total_weight, capacity) == ~(total_weight > capacity)

verify_feasibility(problem_text, solution_data) ==
    IF problem_text.empty \/ solution_data = <<>> THEN RaisesValueError
    ELSE
    LET p == parse_problem(problem_text)
        s == parse_solution(solution_data)
    IN  IF ~p.ok THEN Returns(FALSE)
        \* "except ValueError: raise"
        ELSE IF s.raised THEN RaisesValueError
        ELSE IF ~s.ok THEN Returns(FALSE)
        ELSE IF Len(s.names) = 0 THEN Returns(TRUE)
        \* KeyError is caught by "except Exception"
        ELSE IF LacksField(p.items, "name") THEN Returns(FALSE)
        ELSE IF ~AllKnown(p.items, s.names) THEN Returns(FALSE)
        ELSE IF SelectedLacks(p.items, s.names, "weight") THEN Returns(FALSE)
        ELSE IF Overflows(p, s.names, Len(s.names), "weight")
        THEN Returns(FALSE)
        ELSE Returns(within_capacity(
                         SumField(p.items, s.names, Len(s.names), "weight"),
                         p.capacity))

\* optimal_value of verify_optimality: no table when there is nothing to fill
compute_optimal_value(items, capacity) ==
    IF Len(items) = 0 THEN 0
    ELSE IF capacity = 0 THEN 0
    ELSE dp(items, Len(items), capacity)

\* the comparison that ends verify_optimality
values_match(p, names, solution_value, optimal_value) ==
    solution_value = optimal_value

verify_optimality(problem_text, solution_data) ==
    IF problem_text.empty \/ solution_data = <<>> THEN RaisesValueError
    ELSE
    LET p == parse_problem(problem_text)
        s == parse_solution(solution_data)
        n == Len(p.items)
    IN  IF ~p.ok THEN Returns(FALSE)
        \* "except ValueError: raise"
        ELSE IF s.raised THEN RaisesValueError
        ELSE IF ~s.ok THEN Returns(FALSE)
        ELSE IF n # 0 /\ p.capacity # 0 /\ AllocFails(n, p.capacity)
        THEN Returns(FALSE)
        ELSE IF n # 0 /\ p.capacity # 0
                /\ (LacksField(p.items, "weight") \/ LacksField(p.items, "value"))
        THEN Returns(FALSE)
        ELSE IF LacksField(p.items, "name") THEN Returns(FALSE)
        ELSE IF ~AllKnown(p.items, s.names) THEN Returns(FALSE)
        ELSE IF SelectedLacks(p.items, s.names, "value") THEN Returns(FALSE)
        ELSE IF Overflows(p, s.names, Len(s.names), "value")
        THEN Returns(FALSE)
        ELSE
        LET solution_value == SumField(p.items, s.names, Len(s.names), "value")
        IN  Returns(values_match(p, s.names, solution_value,
                                 compute_optimal_value(p.items, p.capacity)))

\* verify_optimality reaches the allocation of its DP table (line 287)
optimality_allocates(problem_text, solution_data) ==
    LET p == parse_problem(problem_text)
        s == parse_solution(solution_data)
    IN  /\ ~problem_text.empty
        /\ solution_data # <<>>
        /\ p.ok
        /\ s.ok
        /\ Len(p.items) # 0
        /\ p.capacity # 0

\* verify_comprehensive reaches the allocation of its DP table (line 446)
comprehensive_allocates(problem_text, solution_data) ==
    LET p == parse_problem(problem_text)
        s == parse_solution(solution_data)
    IN  /\ ~problem_text.empty
        /\ solution_data # <<>>
        /\ p.ok
        /\ s.ok
        /\ ~LacksField(p.items, "name")
        /\ ScanSelected(p.items, s.names, 1) = "ok"

\* ------------------------------------------------------- ProblemValidator
\* hard limits of validate_problem_text and _solve_knapsack
MAX_CAPACITY == 100000
MAX_ITEMS == 1000
\* above this many items validate_problem_text only warns
LARGE_ITEMS == 100

\* ValidationResult: is_valid is "no errors"; an error is <<message, index>>,
\* index 0 for an error that is not about one item
ValidationResult(errors) ==
    [is_valid |-> errors = {}, errors |-> errors, raised |-> FALSE]

\* an exception no clause of the validator catches
ValidationRaises == [is_valid |-> FALSE, errors |-> {}, raised |-> TRUE]

\* the errors validate_problem_text appends for item i of the array
item_errors(items, i) ==
    LET item == items[i]
    IN  (IF "name" \notin item.has THEN {<<"missing name", i>>} ELSE {})
        \cup (IF "weight" \notin item.has THEN {<<"missing weight", i>>}
              ELSE IF item.weight <= 0 THEN {<<"weight not positive", i>>}
              ELSE {})
        \cup (IF "value" \notin item.has THEN {<<"missing value", i>>}
              ELSE IF item.value < 0 THEN {<<"value negative", i>>}
              ELSE {})

\* the comparison that rejects a capacity as too large
capacity_too_large(capacity) == capacity > MAX_CAPACITY

validate_problem_text(problem_text) ==
    IF problem_text.empty THEN ValidationResult({<<"empty", 0>>})
    ELSE
    LET cap_errors ==
            IF ~problem_text.capMarker THEN {<<"no capacity", 0>>}
            ELSE IF problem_text.capacity <= 0
            THEN {<<"capacity not positive", 0>>}
            ELSE IF capacity_too_large(problem_text.capacity)
            THEN {<<"capacity too large", 0>>}
            ELSE {}
        items == problem_text.items
        items_errors ==
            IF ~problem_text.itemsMarker THEN {<<"no items", 0>>}
            ELSE IF ~problem_text.itemsJson THEN {<<"parse", 0>>}
            ELSE IF Len(items) = 0 THEN {}
            ELSE IF Len(items) > MAX_ITEMS THEN {<<"too many items", 0>>}
            \* a warning, and the items are not looked at
            ELSE IF Len(items) > LARGE_ITEMS THEN {}
            ELSE UNION { item_errors(items, i) : i \in 1..Len(items) }
    IN  ValidationResult(cap_errors \cup items_errors)

\* len(solution) != len(set(solution))
has_duplicates(names) ==
    Cardinality({ names[k] : k \in 1..Len(names) }) # Len(names)

validate_solution(solution_data) ==
    IF solution_data = <<>> THEN ValidationResult({<<"empty", 0>>})
    ELSE
    LET v == json_loads(solution_data)
    IN  IF v.j = "hugeint" THEN ValidationRaises
        ELSE IF v.j = "invalid" THEN ValidationResult({<<"not JSON", 0>>})
        ELSE IF v.j = "notlist" THEN ValidationResult({<<"not a list", 0>>})
        ELSE IF v.j = "nonstr" THEN ValidationResult({<<"not a string", 1>>})
        ELSE ValidationResult(IF has_duplicates(v.names)
                              THEN {<<"duplicate", 0>>} ELSE {})

\* the /solve handler: HTTP 400 before engine.solve when validation fails
HttpResponse(code, called) == [status |-> code, engine_called |-> called]

solve_problem(problem_text) ==
    IF ~validate_problem_text(problem_text).is_valid
    THEN HttpResponse(400, FALSE)
    ELSE HttpResponse(200, TRUE)

\* ----------------------------------------------------------- parse_output
\* A generator output is a sequence of tokens: opening and closing tags,
\* whitespace, JSON text, and "big", a run of more than MAX_OUTPUT_LENGTH
\* characters.
Open(nm) == [t |-> "open", name |-> nm, j |-> "", names |-> <<>>]
Close(nm) == [t |-> "close", name |-> nm, j |-> "", names |-> <<>>]
Ws == [t |-> "ws", name |-> "", j |-> "", names |-> <<>>]
Big == [t |-> "big", name |-> "", j |-> "", names |-> <<>>]

SectionNames ==
    {"parse", "reasoning", "solution", "feasibility_certificate",
     "optimality_certificate", "final", "answer"}

\* a value of the parsed dict: None, or the text of the section
NoneSection == [present |-> FALSE, text |-> <<>>]
Section(text) == [present |-> TRUE, text |-> text]

\* str.strip(): leading and trailing whitespace removed
RECURSIVE strip(_)
strip(text) ==
    IF text = <<>> THEN <<>>
    ELSE IF Head(text).t = "ws" THEN strip(Tail(text))
    ELSE IF text[Len(text)].t = "ws" THEN strip(SubSeq(text, 1, Len(text) - 1))
    ELSE text

\* mutant: an empty section is handed back as None
section_value_or_none(group) ==
    IF strip(group) = <<>> THEN NoneSection ELSE Section(strip(group))

\* match.group(1).strip()
section_value(group) == Section(strip(group))

\* re.search(r"<key>(.*?)</key>", text, re.DOTALL): the first opening tag
\* that a closing tag follows, up to the first closing tag after it
search_section(output_text, key) ==
    LET opens == { i \in 1..Len(output_text) :
                      /\ output_text[i] = Open(key)
                      /\ \E c \in (i + 1)..Len(output_text) :
                            output_text[c] = Close(key) }
    IN  IF opens = {} THEN NoneSection
        ELSE LET i == CHOOSE x \in opens : \A y \in opens : x <= y
                 closes == { c \in (i + 1)..Len(output_text) :
                                output_text[c] = Close(key) }
                 c == CHOOSE x \in closes : \A y \in closes : x <= y
             IN  section_value(SubSeq(output_text, i + 1, c - 1))

TooLong(output_text) == \E i \in 1..Len(output_text) : output_text[i].t = "big"

\* parse_output(output_text) when it does not raise ValueError
parse_output(output_text) ==
    [key \in SectionNames |-> search_section(output_text, key)]

\* -------------------------------------------------- InferenceEngine.solve
EmptyDict == [key \in {} |-> NoneSection]

Verification(feas, opt) ==
    [feasible |-> feas, optimal |-> opt, verified |-> feas /\ opt]

Result(raw, parsed, feas, opt, n) ==
    [raw_output |-> raw, parsed |-> parsed,
     verification |-> Verification(feas, opt), attempt |-> n]

\* mutant: the fallback record does not report the budget
empty_result_attempt_zero(n) == Result(<<>>, EmptyDict, FALSE, FALSE, 0)

\* the record solve returns when best_result is None
empty_result(n) == Result(<<>>, EmptyDict, FALSE, FALSE, n)

\* best_result: None, or a result record
None == [some |-> FALSE, rec |-> empty_result(0)]
Some(r) == [some |-> TRUE, rec |-> r]

\* lines 173-180
score_of(answer, is_feasible, is_optimal) ==
    IF is_optimal THEN 3
    ELSE IF is_feasible THEN 2
    ELSE IF answer.present THEN 1
    ELSE 0

\* mutant: a tie replaces the recorded attempt
improves_or_ties(score, best) == score >= best

\* line 183: "if score > best_score"
improves(score, best) == score > best

\* mutant: no early return
stop_early_never(is_feasible, is_optimal) == FALSE

\* line 188: "if is_feasible and is_optimal: return result"
stop_early(is_feasible, is_optimal) == is_feasible /\ is_optimal

\* mutant: one iteration too many
loop_continues_one_more(done_attempts, retries) == done_attempts <= retries

\* line 136: "for attempt in range(max_retries)" has another iteration
loop_continues(done_attempts, retries) == done_attempts < retries

\* mutant: only the generator's exception is caught
caught_generator_only(exc) == exc = "GeneratorError"

\* line 199: "except Exception" catches the exceptions an attempt raises
caught(exc) == exc \in {"GeneratorError", "ValueError", "KeyError"}

\* format_input(problem_text): the template with the problem text filled in
format_input(problem) == [template |-> "PROMPT_TEMPLATE", problem_text |-> problem]

\* mutant: the temperature is passed on the first call as well
gen_kwargs_always(done_attempts, temp) == {<<"temperature", temp>>}

\* line 142: the keyword arguments of the generator call of an attempt
gen_kwargs(done_attempts, temp) ==
    IF done_attempts > 0 THEN {<<"temperature", temp>>} ELSE {}

\* line 143: self.engine.generate([formatted_prompt], **gen_kwargs)
generate_call(formatted_prompt, kwargs) ==
    [prompts |-> <<formatted_prompt>>, kwargs |-> kwargs]

\* The body of the try block for one attempt (lines 139-197): what the
\* generator did is g, either an exception or a raw output.
GenRaises == [raises |-> TRUE, output |-> <<>>]
GenReturns(text) == [raises |-> FALSE, output |-> text]

Completed(r, sc) == [exc |-> "", src |-> "", result |-> r, score |-> sc]
Failed(e, where) ==
    [exc |-> e, src |-> where, result |-> empty_result(0), score |-> 0]

attempt_body(problem, g, n) ==
    IF g.raises THEN Failed("GeneratorError", "generate")
    ELSE IF TooLong(g.output) THEN Failed("ValueError", "parse_output")
    ELSE
    LET parsed == parse_output(g.output)
        answer == parsed["answer"]
        truthy == answer.present /\ answer.text # <<>>
        feas == IF truthy THEN verify_feasibility(problem, answer.text)
                ELSE Returns(FALSE)
        opt == IF truthy THEN verify_optimality(problem, answer.text)
               ELSE Returns(FALSE)
    IN  IF feas.raised \/ opt.raised THEN Failed("ValueError", "verifier")
        ELSE Completed(Result(g.output, parsed, feas.value, opt.value, n),
                       score_of(answer, feas.value, opt.value))

\* ======================================================== state
VARIABLES
    v_pc,           \* "call": a call is pending; "done": it ended
    v_problem,      \* problem_text of the pending call
    v_solution,     \* solution_data of the call
    v_claimed,      \* claimed_status of the call ("None" when not given)
    v_outcome,      \* what verify_comprehensive returned or raised
    v_op,           \* the operation that was called ("" before the call)
    v_result,       \* what verify_feasibility / verify_optimality did
    v_validation,   \* the ValidationResult a validator returned
    v_http,         \* the response of the /solve handler
    pc,             \* solve: "loop" in the retry loop, "done" returned,
                    \*        "raised" an exception left solve, "idle" no call
    problem_text,   \* solve's problem_text
    max_retries,    \* solve's max_retries
    temperature,    \* solve's temperature
    attempt,        \* the loop variable: iterations started so far
    best_score,     \* solve's best_score
    best_result,    \* solve's best_result
    returned,       \* the record solve returned
    gen_log,        \* the arguments of each generator call so far
    hist,           \* what each attempt so far did (its result or exception)
    k_pc,           \* _solve_knapsack: "call" entered, "backtrack" in the
                    \*   reconstruction loop, "done" returned, "raised"
                    \*   ValueError left it, "idle" no call
    k_capacity,     \* _solve_knapsack's capacity
    k_items,        \* _solve_knapsack's items
    k_i,            \* the loop variable i of the reconstruction
    k_w,            \* the remaining capacity w of the reconstruction
    k_selected,     \* selected_items
    k_max_val,      \* max_val
    a_pc,           \* a verifier call: "call" entered, "arm" about to arm the
                    \*   alarm, "armed" between signal.alarm(timeout) and
                    \*   the try, "body" in the try, "except_..." in a handler,
                    \*   "finally" before signal.alarm(0), "exited", "idle"
    a_op,           \* the entry point that was called
    a_call,         \* how many calls were entered so far
    a_armed,        \* a SIGALRM is pending
    a_owner,        \* the call that armed the pending alarm (0: none)
    a_fired,        \* where the current call was when the alarm fired
    a_pending,      \* what the call will do once its finally clause is done
    a_exit,         \* how the call ended
    a_work,         \* steps of computation left in the body
    a_signals,      \* signal.signal / signal.alarm work for this call
                    \*   (SIGALRM exists and the call is in the main thread)
    o_pc,           \* parse_output: "call" entered, "done" ended, "idle"
    o_text,         \* output_text
    o_result        \* what parse_output returned or raised

verifier_vars ==
    <<v_pc, v_problem, v_solution, v_claimed, v_outcome, v_op, v_result,
      v_validation, v_http>>
solve_vars ==
    <<pc, problem_text, max_retries, temperature, attempt, best_score, best_result,
      returned, gen_log, hist>>
knapsack_vars ==
    <<k_pc, k_capacity, k_items, k_i, k_w, k_selected, k_max_val>>
alarm_vars ==
    <<a_pc, a_op, a_call, a_armed, a_owner, a_fired, a_pending, a_exit, a_work,
      a_signals>>
parse_vars == <<o_pc, o_text, o_result>>
vars == <<verifier_vars, solve_vars, knapsack_vars, alarm_vars, parse_vars>>

\* ------------------------------------------- inputs of the verifier
ItemNames == {"A", "B"}
ItemWeights == {0, 1, 2}
ItemValues == {1, 2}

ItemPool ==
    { Item(nm, wt, val) : nm \in ItemNames, wt \in ItemWeights, val \in ItemValues }
    \cup { ItemLacking("A", 1, 1, "weight"), ItemLacking("B", 1, 1, "name") }

\* a capacity just above the hard limit, an item array just above it
OverCapacityText == ProblemText(MAX_CAPACITY + 1, <<Item("A", 1, 1)>>)

ManyItemsText == ProblemText(1, [i \in 1..(MAX_ITEMS + 1) |-> Item("A", 1, 1)])

\* an item array just above the warning threshold, its first item lacks a weight
LargeListText ==
    ProblemText(1, [i \in 1..(LARGE_ITEMS + 1) |->
                        IF i = 1 THEN ItemLacking("A", 1, 1, "weight")
                        ELSE Item("B", 1, 1)])

ProblemTexts ==
    { ProblemText(cap, its) : cap \in 0..MaxCap, its \in SeqsUpTo(ItemPool, MaxItems) }
    \cup { EmptyProblemText, NoCapacityText(<<>>), NoItemsText(1), BadItemsText(1) }
    \cup { OverCapacityText, ManyItemsText, LargeListText }

\* "Z" names no item of any problem
SelectedNames == ItemNames \cup {"Z"}

SolutionTexts ==
    { <<JsonList(names)>> : names \in SeqsUpTo(SelectedNames, MaxSel) }
    \cup { <<NotJson>>, <<JsonNotList>>, <<JsonNonString>>, <<JsonHugeInt>>, <<>> }

ClaimedStatuses == {"None", "OPTIMAL", "BOUNDED"}

NoOutcome == Raised("")
NoResult == Returns(FALSE)
NoValidation == ValidationResult({})
NoResponse == HttpResponse(0, FALSE)

AlarmIdle ==
    /\ a_pc = "idle"
    /\ a_op = ""
    /\ a_call = 0
    /\ a_armed = FALSE
    /\ a_owner = 0
    /\ a_fired = ""
    /\ a_pending = ""
    /\ a_exit = ""
    /\ a_work = 0
    /\ a_signals = FALSE

NoParse == [raised |-> FALSE, parsed |-> EmptyDict]

ParseIdle ==
    /\ o_pc = "idle"
    /\ o_text = <<>>
    /\ o_result = NoParse

\* nothing has been called yet
NotCalled ==
    /\ v_solution = <<>>
    /\ v_claimed = "None"
    /\ v_outcome = NoOutcome
    /\ v_op = ""
    /\ v_result = NoResult
    /\ v_validation = NoValidation
    /\ v_http = NoResponse

VerifierIdle ==
    /\ v_pc = "idle"
    /\ v_problem = EmptyProblemText
    /\ NotCalled

\* temperature: float = 0.7
DefaultTemperature == "0.7"

SolveIdle ==
    /\ pc = "idle"
    /\ problem_text = EmptyProblemText
    /\ max_retries = 0
    /\ temperature = DefaultTemperature
    /\ attempt = 0
    /\ best_score = -1
    /\ best_result = None
    /\ returned = None
    /\ gen_log = <<>>
    /\ hist = <<>>

KnapsackIdle ==
    /\ k_pc = "idle"
    /\ k_capacity = 0
    /\ k_items = <<>>
    /\ k_i = 0
    /\ k_w = 0
    /\ k_selected = <<>>
    /\ k_max_val = 0

InitVerify ==
    /\ v_pc = "call"
    /\ v_problem \in ProblemTexts
    /\ NotCalled
    /\ SolveIdle
    /\ KnapsackIdle
    /\ AlarmIdle
    /\ ParseIdle

\* one call of Verifier.verify_comprehensive
VerifyComprehensive ==
    /\ v_pc = "call"
    /\ \E sol \in SolutionTexts, claimed \in ClaimedStatuses :
          /\ v_solution' = sol
          /\ v_claimed' = claimed
          /\ v_outcome' = verify_comprehensive(v_problem, sol, claimed)
    /\ v_pc' = "done"
    /\ v_op' = "verify_comprehensive"
    /\ UNCHANGED <<v_problem, v_result, v_validation, v_http, solve_vars,
                   knapsack_vars, alarm_vars, parse_vars>>

\* one call of Verifier.verify_feasibility
VerifyFeasibility ==
    /\ v_pc = "call"
    /\ \E sol \in SolutionTexts :
          /\ v_solution' = sol
          /\ v_result' = verify_feasibility(v_problem, sol)
    /\ v_pc' = "done"
    /\ v_op' = "verify_feasibility"
    /\ UNCHANGED <<v_problem, v_claimed, v_outcome, v_validation, v_http,
                   solve_vars, knapsack_vars, alarm_vars, parse_vars>>

\* one call of Verifier.verify_optimality
VerifyOptimality ==
    /\ v_pc = "call"
    /\ \E sol \in SolutionTexts :
          /\ v_solution' = sol
          /\ v_result' = verify_optimality(v_problem, sol)
    /\ v_pc' = "done"
    /\ v_op' = "verify_optimality"
    /\ UNCHANGED <<v_problem, v_claimed, v_outcome, v_validation, v_http,
                   solve_vars, knapsack_vars, alarm_vars, parse_vars>>

\* one call of ProblemValidator.validate_solution
ValidateSolution ==
    /\ v_pc = "call"
    /\ \E sol \in SolutionTexts :
          /\ v_solution' = sol
          /\ v_validation' = validate_solution(sol)
    /\ v_pc' = "done"
    /\ v_op' = "validate_solution"
    /\ UNCHANGED <<v_problem, v_claimed, v_outcome, v_result, v_http,
                   solve_vars, knapsack_vars, alarm_vars, parse_vars>>

\* one call of ProblemValidator.validate_problem_text
ValidateProblemText ==
    /\ v_pc = "call"
    /\ v_validation' = validate_problem_text(v_problem)
    /\ v_pc' = "done"
    /\ v_op' = "validate_problem_text"
    /\ UNCHANGED <<v_problem, v_solution, v_claimed, v_outcome, v_result,
                   v_http, solve_vars,
                   knapsack_vars, alarm_vars, parse_vars>>

\* one POST /solve; the request model refuses an empty problem_text
SolveProblem ==
    /\ v_pc = "call"
    /\ ~v_problem.empty
    /\ v_validation' = validate_problem_text(v_problem)
    /\ v_http' = solve_problem(v_problem)
    /\ v_pc' = "done"
    /\ v_op' = "solve_problem"
    /\ UNCHANGED <<v_problem, v_solution, v_claimed, v_outcome, v_result,
                   solve_vars, knapsack_vars, alarm_vars, parse_vars>>

NextVerify ==
    \/ VerifyComprehensive
    \/ VerifyFeasibility
    \/ VerifyOptimality
    \/ ValidateSolution
    \/ ValidateProblemText
    \/ SolveProblem

SpecVerify == InitVerify /\ [][NextVerify]_vars

\* Problems whose item values reach 2**31: the values are multiples of 8, the
\* largest are 2**31 - 8 and 2**31.
LargeValues == {1, INT_MAX \div 8, (INT_MAX \div 8) + 1}

LargeValueItems == { Item(nm, 1, val) : nm \in ItemNames, val \in LargeValues }

LargeValueTexts ==
    { ScaledValuesText(8, cap, its) :
        cap \in 1..2, its \in SeqsUpTo(LargeValueItems, MaxItems) }

InitLargeValues ==
    /\ v_pc = "call"
    /\ v_problem \in LargeValueTexts
    /\ NotCalled
    /\ SolveIdle
    /\ KnapsackIdle
    /\ AlarmIdle
    /\ ParseIdle

SpecLargeValues == InitLargeValues /\ [][NextVerify]_vars

\* ------------------------------------------------- inputs of solve
SolveProblems ==
    { ProblemText(1, <<Item("A", 1, 1), Item("B", 2, 1)>>),
      ProblemText(2, <<Item("A", 1, 1), Item("B", 2, 2)>>),
      ProblemText(0, <<>>),
      NoCapacityText(<<Item("A", 1, 1)>>),
      EmptyProblemText }

AnswerOutput(text) ==
    <<Open("reasoning"), Ws, Close("reasoning"), Open("answer")>>
        \o text \o <<Close("answer")>>

GenOutputs ==
    { AnswerOutput(<<Ws, JsonList(names), Ws>>) :
          names \in {<<>>, <<"A">>, <<"B">>, <<"A", "B">>, <<"A", "A">>, <<"Z">>} }
    \cup { AnswerOutput(<<NotJson>>),
           AnswerOutput(<<Ws>>),
           <<Open("reasoning"), Ws, Close("reasoning")>>,
           <<Open("answer"), JsonList(<<"A">>)>>,
           <<Big>> }

GenBehaviours == {GenRaises} \cup { GenReturns(text) : text \in GenOutputs }

InitSolve ==
    /\ pc = "loop"
    /\ problem_text \in SolveProblems
    /\ max_retries \in 0..MaxRetries
    /\ temperature = DefaultTemperature
    /\ attempt = 0
    /\ best_score = -1
    /\ best_result = None
    /\ returned = None
    /\ gen_log = <<>>
    /\ hist = <<>>
    /\ VerifierIdle
    /\ KnapsackIdle
    /\ AlarmIdle
    /\ ParseIdle

\* an iteration whose try block raises (lines 199-201: log, continue)
AttemptRaises ==
    /\ pc = "loop"
    /\ loop_continues(attempt, max_retries)
    /\ \E g \in GenBehaviours :
          LET r == attempt_body(problem_text, g, attempt + 1)
          IN  /\ r.exc # ""
              /\ hist' = Append(hist, r)
              /\ pc' = IF caught(r.exc) THEN "loop" ELSE "raised"
    /\ gen_log' = Append(gen_log,
                         generate_call(format_input(problem_text),
                                       gen_kwargs(attempt, temperature)))
    /\ attempt' = attempt + 1
    /\ UNCHANGED <<problem_text, max_retries, temperature, best_score, best_result, returned>>
    /\ UNCHANGED <<verifier_vars, knapsack_vars, alarm_vars, parse_vars>>

\* an iteration that scores its result and goes on (lines 162-197)
AttemptNotVerified ==
    /\ pc = "loop"
    /\ loop_continues(attempt, max_retries)
    /\ \E g \in GenBehaviours :
          LET r == attempt_body(problem_text, g, attempt + 1)
              v == r.result.verification
          IN  /\ r.exc = ""
              /\ ~stop_early(v.feasible, v.optimal)
              /\ hist' = Append(hist, r)
              /\ best_score' =
                    IF improves(r.score, best_score) THEN r.score ELSE best_score
              /\ best_result' =
                    IF improves(r.score, best_score) THEN Some(r.result)
                    ELSE best_result
    /\ gen_log' = Append(gen_log,
                         generate_call(format_input(problem_text),
                                       gen_kwargs(attempt, temperature)))
    /\ attempt' = attempt + 1
    /\ UNCHANGED <<pc, problem_text, max_retries, temperature, returned>>
    /\ UNCHANGED <<verifier_vars, knapsack_vars, alarm_vars, parse_vars>>

\* an iteration that returns its result (lines 162-192)
AttemptVerified ==
    /\ pc = "loop"
    /\ loop_continues(attempt, max_retries)
    /\ \E g \in GenBehaviours :
          LET r == attempt_body(problem_text, g, attempt + 1)
              v == r.result.verification
          IN  /\ r.exc = ""
              /\ stop_early(v.feasible, v.optimal)
              /\ hist' = Append(hist, r)
              /\ best_score' =
                    IF improves(r.score, best_score) THEN r.score ELSE best_score
              /\ best_result' =
                    IF improves(r.score, best_score) THEN Some(r.result)
                    ELSE best_result
              /\ returned' = Some(r.result)
    /\ pc' = "done"
    /\ gen_log' = Append(gen_log,
                         generate_call(format_input(problem_text),
                                       gen_kwargs(attempt, temperature)))
    /\ attempt' = attempt + 1
    /\ UNCHANGED <<problem_text, max_retries, temperature>>
    /\ UNCHANGED <<verifier_vars, knapsack_vars, alarm_vars, parse_vars>>

\* after the loop: "if best_result: return best_result" (lines 204-209)
ReturnBest ==
    /\ pc = "loop"
    /\ ~loop_continues(attempt, max_retries)
    /\ best_result.some
    /\ returned' = best_result
    /\ pc' = "done"
    /\ UNCHANGED <<problem_text, max_retries, temperature, attempt, best_score, best_result,
                   gen_log, hist>>
    /\ UNCHANGED <<verifier_vars, knapsack_vars, alarm_vars, parse_vars>>

\* after the loop: the fallback record (lines 210-222)
ReturnEmpty ==
    /\ pc = "loop"
    /\ ~loop_continues(attempt, max_retries)
    /\ ~best_result.some
    /\ returned' = Some(empty_result(max_retries))
    /\ pc' = "done"
    /\ UNCHANGED <<problem_text, max_retries, temperature, attempt, best_score, best_result,
                   gen_log, hist>>
    /\ UNCHANGED <<verifier_vars, knapsack_vars, alarm_vars, parse_vars>>

NextSolve ==
    \/ AttemptRaises
    \/ AttemptNotVerified
    \/ AttemptVerified
    \/ ReturnBest
    \/ ReturnEmpty

SpecSolve == InitSolve /\ [][NextSolve]_vars

\* solve called with a temperature of the caller's choice
Temperatures == {"0.0", DefaultTemperature, "1.5"}

InitSolveTemperature ==
    /\ pc = "loop"
    /\ problem_text \in { ProblemText(1, <<Item("A", 1, 1), Item("B", 2, 1)>>),
                         ProblemText(0, <<>>) }
    /\ max_retries \in 0..MaxRetries
    /\ temperature \in Temperatures
    /\ attempt = 0
    /\ best_score = -1
    /\ best_result = None
    /\ returned = None
    /\ gen_log = <<>>
    /\ hist = <<>>
    /\ VerifierIdle
    /\ KnapsackIdle
    /\ AlarmIdle
    /\ ParseIdle

SpecSolveTemperature == InitSolveTemperature /\ [][NextSolve]_vars

\* =================================== OptimizationDataset._solve_knapsack
\* _generate_data names the items of a problem by position (chr(65 + j))
PositionName(j) == <<"A", "B", "C", "D">>[j]

\* weights and values handed to the solver; 0 and -1 are what it validates
KnapsackWeights == {0, 1, 2, 3}
KnapsackValues == {-1, 0, 1, 2}

KnapsackItemLists ==
    UNION { { [j \in 1..n |-> Item(PositionName(j), f[j][1], f[j][2])] :
                f \in [1..n -> KnapsackWeights \X KnapsackValues] } :
            n \in 0..MaxItems }

KnapsackCapacities == (0..MaxCap) \cup {MAX_CAPACITY + 1}

\* the checks before the table: capacity, then (for a non-empty list) every
\* item's weight and value, then the allocation; each raises ValueError
capacity_rejected(capacity) == capacity <= 0 \/ capacity > MAX_CAPACITY

items_rejected(items) ==
    \E i \in 1..Len(items) : items[i].weight <= 0 \/ items[i].value < 0

solver_raises(capacity, items) ==
    \/ capacity_rejected(capacity)
    \/ /\ items # <<>>
       /\ items_rejected(items) \/ AllocFails(Len(items), capacity)

\* dp[i][w] read from the filled table; a negative index counts from the end
cell(items, capacity, i, w) ==
    dp(items, i, IF w < 0 THEN w + capacity + 1 ELSE w)

\* mutant: every item is put into the selection
included_always(items, capacity, i, w) == TRUE

\* the test of the reconstruction: dp[i][w] != dp[i - 1][w]
included(items, capacity, i, w) ==
    cell(items, capacity, i, w) # cell(items, capacity, i - 1, w)

InitKnapsack ==
    /\ k_pc = "call"
    /\ k_capacity \in KnapsackCapacities
    /\ k_items \in KnapsackItemLists
    /\ k_i = 0
    /\ k_w = 0
    /\ k_selected = <<>>
    /\ k_max_val = 0
    /\ VerifierIdle
    /\ SolveIdle
    /\ AlarmIdle
    /\ ParseIdle

\* lines 257-287: a check fails and ValueError leaves the solver
SolverRaises ==
    /\ k_pc = "call"
    /\ solver_raises(k_capacity, k_items)
    /\ k_pc' = "raised"
    /\ UNCHANGED <<k_capacity, k_items, k_i, k_w, k_selected, k_max_val,
                   verifier_vars, solve_vars, alarm_vars, parse_vars>>

\* lines 263-273: no items, the empty selection is returned
SolverNoItems ==
    /\ k_pc = "call"
    /\ ~capacity_rejected(k_capacity)
    /\ k_items = <<>>
    /\ k_selected' = <<>>
    /\ k_pc' = "done"
    /\ UNCHANGED <<k_capacity, k_items, k_i, k_w, k_max_val,
                   verifier_vars, solve_vars, alarm_vars, parse_vars>>

\* lines 282-303: the table is allocated and filled, max_val is read, and the
\* reconstruction starts at i = n, w = capacity
SolverFill ==
    /\ k_pc = "call"
    /\ ~solver_raises(k_capacity, k_items)
    /\ k_items # <<>>
    /\ k_max_val' = cell(k_items, k_capacity, Len(k_items), k_capacity)
    /\ k_i' = Len(k_items)
    /\ k_w' = k_capacity
    /\ k_selected' = <<>>
    /\ k_pc' = "backtrack"
    /\ UNCHANGED <<k_capacity, k_items, verifier_vars, solve_vars, alarm_vars, parse_vars>>

\* lines 312-319: item i is part of the selection
BacktrackInclude ==
    /\ k_pc = "backtrack"
    /\ k_i >= 1
    /\ included(k_items, k_capacity, k_i, k_w)
    /\ k_selected' = Append(k_selected, k_items[k_i].name)
    /\ k_w' = k_w - k_items[k_i].weight
    /\ k_i' = k_i - 1
    /\ UNCHANGED <<k_pc, k_capacity, k_items, k_max_val,
                   verifier_vars, solve_vars, alarm_vars, parse_vars>>

\* lines 320-323: item i is skipped
BacktrackSkip ==
    /\ k_pc = "backtrack"
    /\ k_i >= 1
    /\ ~included(k_items, k_capacity, k_i, k_w)
    /\ k_i' = k_i - 1
    /\ UNCHANGED <<k_pc, k_capacity, k_items, k_w, k_selected, k_max_val,
                   verifier_vars, solve_vars, alarm_vars, parse_vars>>

\* lines 325-334: the loop is over, the selection is returned
SolverReturn ==
    /\ k_pc = "backtrack"
    /\ k_i = 0
    /\ k_pc' = "done"
    /\ UNCHANGED <<k_capacity, k_items, k_i, k_w, k_selected, k_max_val,
                   verifier_vars, solve_vars, alarm_vars, parse_vars>>

NextKnapsack ==
    \/ SolverRaises
    \/ SolverNoItems
    \/ SolverFill
    \/ BacktrackInclude
    \/ BacktrackSkip
    \/ SolverReturn

SpecKnapsack == InitKnapsack /\ [][NextKnapsack]_vars

\* ------------------------------------------------- the deadline alarm
\* The control flow of one verifier call around signal.alarm, one step per
\* place where SIGALRM can be delivered.  What the body computes is left open:
\* it returns True or False, or raises ValueError or another exception.
AlarmOps == {"verify_feasibility", "verify_optimality", "verify_comprehensive"}

\* the entry points that call signal.alarm(self.timeout)
HasDeadline(op) == op \in {"verify_feasibility", "verify_optimality"}

BodyOutcomes == {"True", "False", "ValueError", "Exception"}

InitAlarm ==
    /\ a_pc = "call"
    /\ a_op \in AlarmOps
    /\ a_call = 1
    /\ a_armed = FALSE
    /\ a_owner = 0
    /\ a_fired = ""
    /\ a_pending = ""
    /\ a_exit = ""
    /\ a_work \in 0..MaxWork
    /\ a_signals \in BOOLEAN
    /\ VerifierIdle
    /\ SolveIdle
    /\ KnapsackIdle
    /\ ParseIdle

\* if not problem_text or not solution_data: raise ValueError(...)
CheckArguments ==
    /\ a_pc = "call"
    /\ \E empty \in BOOLEAN :
         IF empty
         THEN a_pc' = "exited" /\ a_exit' = "ValueError"
         ELSE /\ a_pc' = IF HasDeadline(a_op) THEN "arm" ELSE "body"
              /\ a_exit' = a_exit
    /\ UNCHANGED <<a_op, a_call, a_armed, a_owner, a_fired, a_pending, a_work,
                   a_signals>>
    /\ UNCHANGED <<verifier_vars, solve_vars, knapsack_vars, parse_vars>>

\* try: signal.signal(SIGALRM, timeout_handler); signal.alarm(self.timeout)
\* except (AttributeError, ValueError): logger.debug(...)
ArmAlarm ==
    /\ a_pc = "arm"
    /\ IF a_signals
       THEN a_armed' = TRUE /\ a_owner' = a_call /\ a_pc' = "armed"
       ELSE a_armed' = a_armed /\ a_owner' = a_owner /\ a_pc' = "body"
    /\ UNCHANGED <<a_op, a_call, a_fired, a_pending, a_exit, a_work, a_signals>>
    /\ UNCHANGED <<verifier_vars, solve_vars, knapsack_vars, parse_vars>>

\* control leaves the arming statement and enters the main try
EnterTry ==
    /\ a_pc = "armed"
    /\ a_pc' = "body"
    /\ UNCHANGED <<a_op, a_call, a_armed, a_owner, a_fired, a_pending, a_exit,
                   a_work, a_signals>>
    /\ UNCHANGED <<verifier_vars, solve_vars, knapsack_vars, parse_vars>>

\* one more step of decoding, table filling or summing
BodyStep ==
    /\ a_pc = "body"
    /\ a_work > 0
    /\ a_work' = a_work - 1
    /\ UNCHANGED <<a_pc, a_op, a_call, a_armed, a_owner, a_fired, a_pending,
                   a_exit, a_signals>>
    /\ UNCHANGED <<verifier_vars, solve_vars, knapsack_vars, parse_vars>>

\* the body returns or raises; verify_comprehensive has no try around it
BodyEnds ==
    /\ a_pc = "body"
    /\ \E out \in BodyOutcomes :
         IF ~HasDeadline(a_op)
         THEN a_pc' = "exited" /\ a_exit' = out /\ a_pending' = a_pending
         ELSE IF out \in {"True", "False"}
         THEN a_pc' = "finally" /\ a_pending' = out /\ a_exit' = a_exit
         ELSE /\ a_pc' = IF out = "ValueError" THEN "except_ValueError"
                         ELSE "except_Exception"
              /\ a_pending' = a_pending
              /\ a_exit' = a_exit
    /\ UNCHANGED <<a_op, a_call, a_armed, a_owner, a_fired, a_work, a_signals>>
    /\ UNCHANGED <<verifier_vars, solve_vars, knapsack_vars, parse_vars>>

\* except TimeoutError: logger.error(...); return False
HandleTimeout ==
    /\ a_pc = "except_TimeoutError"
    /\ a_pending' = "False"
    /\ a_pc' = "finally"
    /\ UNCHANGED <<a_op, a_call, a_armed, a_owner, a_fired, a_exit, a_work,
                   a_signals>>
    /\ UNCHANGED <<verifier_vars, solve_vars, knapsack_vars, parse_vars>>

\* except ValueError: raise
ReraiseValueError ==
    /\ a_pc = "except_ValueError"
    /\ a_pending' = "ValueError"
    /\ a_pc' = "finally"
    /\ UNCHANGED <<a_op, a_call, a_armed, a_owner, a_fired, a_exit, a_work,
                   a_signals>>
    /\ UNCHANGED <<verifier_vars, solve_vars, knapsack_vars, parse_vars>>

\* except Exception as e: logger.error(...); return False
HandleException ==
    /\ a_pc = "except_Exception"
    /\ a_pending' = "False"
    /\ a_pc' = "finally"
    /\ UNCHANGED <<a_op, a_call, a_armed, a_owner, a_fired, a_exit, a_work,
                   a_signals>>
    /\ UNCHANGED <<verifier_vars, solve_vars, knapsack_vars, parse_vars>>

\* mutant: the finally clause leaves the alarm as it is
alarm_after_cancel_kept(armed) == armed

\* signal.alarm(0): no alarm is pending afterwards
alarm_after_cancel(armed) == FALSE

\* finally: try: signal.alarm(0) except (AttributeError, ValueError): pass
\* and then the pending return or exception takes effect
CancelAlarm ==
    /\ a_pc = "finally"
    /\ a_armed' = alarm_after_cancel(a_armed)
    /\ a_owner' = IF a_armed' THEN a_owner ELSE 0
    /\ a_pc' = "exited"
    /\ a_exit' = a_pending
    /\ UNCHANGED <<a_op, a_call, a_fired, a_pending, a_work, a_signals>>
    /\ UNCHANGED <<verifier_vars, solve_vars, knapsack_vars, parse_vars>>

\* SIGALRM is delivered and timeout_handler raises TimeoutError where the
\* call is: inside the main try it reaches "except TimeoutError"; inside a
\* handler it replaces what was pending and the finally clause runs; between
\* signal.alarm(timeout) and the try, and inside the finally clause before
\* signal.alarm(0), no clause catches it.
AlarmFires ==
    /\ a_armed
    /\ a_armed' = FALSE
    /\ a_owner' = 0
    /\ a_fired' = a_pc
    /\ IF a_pc = "body" /\ HasDeadline(a_op)
       THEN a_pc' = "except_TimeoutError" /\ UNCHANGED <<a_pending, a_exit>>
       ELSE IF a_pc \in {"except_TimeoutError", "except_ValueError",
                         "except_Exception"}
       THEN a_pc' = "finally" /\ a_pending' = "TimeoutError" /\ a_exit' = a_exit
       ELSE IF a_pc = "exited"
       THEN UNCHANGED <<a_pc, a_pending, a_exit>>
       ELSE a_pc' = "exited" /\ a_exit' = "TimeoutError" /\ a_pending' = a_pending
    /\ UNCHANGED <<a_op, a_call, a_work, a_signals>>
    /\ UNCHANGED <<verifier_vars, solve_vars, knapsack_vars, parse_vars>>

\* the caller makes its next verifier call (solve calls verify_feasibility,
\* then verify_optimality, and again on the next attempt)
NextCall ==
    /\ a_pc = "exited"
    /\ a_call < MaxCalls
    /\ a_pc' = "call"
    /\ a_call' = a_call + 1
    /\ a_op' \in AlarmOps
    /\ a_work' \in 0..MaxWork
    /\ a_signals' \in BOOLEAN
    /\ a_fired' = ""
    /\ a_pending' = ""
    /\ a_exit' = ""
    /\ UNCHANGED <<a_armed, a_owner>>
    /\ UNCHANGED <<verifier_vars, solve_vars, knapsack_vars, parse_vars>>

NextAlarm ==
    \/ CheckArguments
    \/ ArmAlarm
    \/ EnterTry
    \/ BodyStep
    \/ BodyEnds
    \/ HandleTimeout
    \/ ReraiseValueError
    \/ HandleException
    \/ CancelAlarm
    \/ AlarmFires
    \/ NextCall

SpecAlarm == InitAlarm /\ [][NextAlarm]_vars

\* ------------------------------------------------- parse_output, called
\* the tags of three of the seven sections, whitespace, a piece of text, and
\* a piece of text longer than MAX_OUTPUT_LENGTH
OutputTokens ==
    { Open(nm) : nm \in {"answer", "reasoning", "final"} }
    \cup { Close(nm) : nm \in {"answer", "reasoning", "final"} }
    \cup { Ws, JsonList(<<"A">>), Big }

OutputTexts == SeqsUpTo(OutputTokens, MaxTokens)

InitParse ==
    /\ o_pc = "call"
    /\ o_text \in OutputTexts
    /\ o_result = NoParse
    /\ VerifierIdle
    /\ SolveIdle
    /\ KnapsackIdle
    /\ AlarmIdle

\* parse_output(output_text): ValueError above MAX_OUTPUT_LENGTH, else the dict
ParseOutput ==
    /\ o_pc = "call"
    /\ o_pc' = "done"
    /\ o_result' = IF TooLong(o_text)
                   THEN [raised |-> TRUE, parsed |-> EmptyDict]
                   ELSE [raised |-> FALSE, parsed |-> parse_output(o_text)]
    /\ UNCHANGED o_text
    /\ UNCHANGED <<verifier_vars, solve_vars, knapsack_vars, alarm_vars>>

NextParse == ParseOutput

SpecParse == InitParse /\ [][NextParse]_vars

\* ========================================= properties of the retry loop
\* attempts that did not raise, and the earliest of the best-scoring ones
NonRaised == { k \in 1..Len(hist) : hist[k].exc = "" }

EarliestBest ==
    CHOOSE k \in NonRaised :
        \A m \in NonRaised :
            \/ hist[m].score < hist[k].score
            \/ (hist[m].score = hist[k].score /\ k <= m)

IsVerified(h) ==
    h.exc = "" /\ h.result.verification.feasible /\ h.result.verification.optimal

\* C1: solve stops at the first attempt k whose answer is both feasible and
\* optimal: it returns that attempt's record (attempt = k, verified = true)
\* and the generator is not invoked for any attempt after k.
C1_StopsAtFirstVerified ==
    \A k \in 1..Len(hist) :
        IsVerified(hist[k]) =>
            /\ k = Len(hist)
            /\ pc = "done"
            /\ returned = Some(hist[k].result)
            /\ returned.rec.attempt = k
            /\ returned.rec.verification.verified
            /\ Len(gen_log) = k

\* attempt 2 of 3 verified after an attempt that did not, and solve returned
C1_Witness ==
    /\ pc = "done"
    /\ max_retries = 3
    /\ Len(hist) = 2
    /\ hist[1].exc = "" /\ ~IsVerified(hist[1])
    /\ IsVerified(hist[2])
    /\ returned.rec.attempt = 2

\* C2: while the loop runs best_result is the earliest attempt that reached
\* best_score, the highest score of the attempts that did not raise, and
\* best_score never decreases; when all max_retries attempts finish without a
\* verified one, the record returned is that attempt's.
C2_BestIsEarliestHighest ==
    /\ NonRaised = {} => (best_score = -1 /\ best_result = None)
    /\ NonRaised # {} =>
          /\ best_score = hist[EarliestBest].score
          /\ best_result = Some(hist[EarliestBest].result)
          /\ best_result.rec.attempt = EarliestBest
    /\ (pc = "done" /\ ~returned.rec.verification.verified /\ NonRaised # {}) =>
          /\ Len(hist) = max_retries
          /\ returned = Some(hist[EarliestBest].result)

C2_KeepsEarliestHighest ==
    /\ []C2_BestIsEarliestHighest
    /\ [][best_score' >= best_score]_vars

\* a feasible attempt, an attempt without an answer and a second feasible
\* attempt: the first is the one returned
C2_Witness ==
    /\ pc = "done"
    /\ Len(hist) = 3
    /\ hist[1].exc = "" /\ hist[1].score = 2
    /\ hist[2].exc = "" /\ hist[2].score = 0
    /\ hist[3].exc = "" /\ hist[3].score = 2
    /\ returned.rec.attempt = 1

\* C3: an exception raised during attempt k (by the generator, parse_output
\* or the verifier) is caught inside that attempt: best_score and best_result
\* are left as they were, the loop goes on, and solve returns without a
\* verified attempt only after all max_retries attempts were made.
C3_RaisingStep ==
    (Len(hist') = Len(hist) + 1 /\ hist'[Len(hist')].exc # "") =>
        /\ best_score' = best_score
        /\ best_result' = best_result
        /\ returned' = returned
        /\ pc' = "loop"

C3_ExceptionStaysInAttempt ==
    /\ [][C3_RaisingStep]_vars
    /\ [](pc # "raised")
    /\ []((pc = "done" /\ ~returned.rec.verification.verified)
              => Len(hist) = max_retries)

\* attempt 1 was recorded as best, attempt 2 raised, attempt 3 still ran
C3_Witness ==
    /\ Len(hist) = 3
    /\ hist[1].exc = "" /\ hist[1].score = 2
    /\ hist[2].exc # ""
    /\ hist[3].exc = ""
    /\ best_result.some /\ best_result.rec.attempt = 1

\* C4: if every one of the max_retries attempts raises, solve returns the
\* sentinel record: raw_output empty, parsed the empty map, feasible, optimal
\* and verified false, attempt = max_retries.
C4_AllRaiseReturnsSentinel ==
    (pc = "done" /\ \A k \in 1..Len(hist) : hist[k].exc # "") =>
        /\ returned.some
        /\ returned.rec.raw_output = <<>>
        /\ DOMAIN returned.rec.parsed = {}
        /\ ~returned.rec.verification.feasible
        /\ ~returned.rec.verification.optimal
        /\ ~returned.rec.verification.verified
        /\ returned.rec.attempt = max_retries

\* three attempts raised, one in each of the generator, the parser and the
\* verifier, and solve returned
C4_Witness ==
    /\ pc = "done"
    /\ max_retries = 3
    /\ Len(hist) = 3
    /\ { hist[k].src : k \in 1..3 } = {"generate", "parse_output", "verifier"}

\* C5: for every max_retries >= 0 solve ends by returning a record with the
\* keys raw_output, parsed, verification and attempt, never by raising; it
\* calls the generator at most max_retries times and the attempt number it
\* returns is at most max_retries.
C5_ReturnsRecordWithinBudget ==
    /\ Len(gen_log) <= max_retries
    /\ pc # "raised"
    /\ (pc = "done" \/ ENABLED NextSolve)
    /\ pc = "done" =>
          /\ returned.some
          /\ DOMAIN returned.rec =
                {"raw_output", "parsed", "verification", "attempt"}
          /\ returned.rec.attempt <= max_retries

\* the whole budget of three generator calls was used, one of them raised,
\* and solve returned
C5_Witness ==
    /\ pc = "done"
    /\ max_retries = 3
    /\ Len(gen_log) = 3
    /\ \E k \in 1..Len(hist) : hist[k].exc # ""
    /\ returned.rec.attempt <= 3

\* C6: the score of an attempt that did not raise is 0 iff there is no answer
\* section, 1 iff there is one but the answer is infeasible, 2 iff the answer
\* is feasible but not optimal, 3 iff it is feasible and optimal; an attempt
\* has score 3 iff its record has verified = true.
C6_ScoreMatchesRanking ==
    \A k \in NonRaised :
        LET r == hist[k].result
            present == r.parsed["answer"].present
            feas == r.verification.feasible
            opt == r.verification.optimal
            sc == hist[k].score
        IN  /\ sc = 0 <=> ~present
            /\ sc = 1 <=> (present /\ ~feas)
            /\ sc = 2 <=> (feas /\ ~opt)
            /\ sc = 3 <=> (feas /\ opt)
            /\ sc = 3 <=> r.verification.verified

\* ================================== properties of verify_comprehensive
ComprehensiveReturned == v_pc = "done" /\ v_outcome.kind = "outcome"

\* C7: in every outcome verify_comprehensive returns, is_optimal = true
\* implies is_feasible = true and gap = 0.
C7_OptimalImpliesFeasibleAndNoGap ==
    (ComprehensiveReturned /\ v_outcome.is_optimal)
        => (v_outcome.is_feasible /\ v_outcome.gap = 0)

\* a non-empty selection was verified and found optimal
C7_Witness ==
    /\ ComprehensiveReturned
    /\ v_outcome.is_optimal
    /\ v_outcome.solution_value > 0

\* C8: in every outcome verify_comprehensive returns, status is INFEASIBLE
\* exactly when is_feasible is false, OPTIMAL exactly when is_feasible is true
\* and solution_value equals computed_optimum, and BOUNDED otherwise.
C8_StatusFollowsFeasibilityAndValue ==
    ComprehensiveReturned =>
        v_outcome.status =
            (IF ~v_outcome.is_feasible THEN "INFEASIBLE"
             ELSE IF v_outcome.solution_value = v_outcome.computed_optimum
             THEN "OPTIMAL" ELSE "BOUNDED")

\* C9: the gap of every outcome verify_comprehensive returns is non-negative;
\* it is computed_optimum - solution_value when the candidate is feasible and
\* 0 otherwise.
C9_GapNonNegative ==
    ComprehensiveReturned =>
        /\ v_outcome.gap >= 0
        /\ v_outcome.gap =
              (IF v_outcome.is_feasible
               THEN v_outcome.computed_optimum - v_outcome.solution_value
               ELSE 0)

\* C10: on every return path of verify_comprehensive, false_optimal_claim is
\* true if and only if claimed_status is OPTIMAL and the returned status is
\* not OPTIMAL.
C10_FalseClaimIffClaimedAndNotOptimal ==
    ComprehensiveReturned =>
        (v_outcome.false_optimal_claim
            <=> (v_claimed = "OPTIMAL" /\ v_outcome.status # "OPTIMAL"))

\* ============== properties of verify_feasibility and verify_optimality
\* the call on record decoded its problem text and its candidate text
Decoded == parse_problem(v_problem).ok /\ parse_solution(v_solution).ok

DecodedItems == parse_problem(v_problem).items
DecodedCapacity == parse_problem(v_problem).capacity
CandidateNames == parse_solution(v_solution).names

\* every element of the decoded item array has name, weight and value
WellFormedItems == \A f \in AllFields : ~LacksField(DecodedItems, f)

\* the decoded problem is a Problem of the data model: every weight positive
PositiveWeights == \A i \in 1..Len(DecodedItems) : DecodedItems[i].weight > 0

\* the allocator grants the DP table of the decoded problem
TableGranted == ~AllocFails(Len(DecodedItems), DecodedCapacity)

\* an item array short enough to enumerate its subsets
Enumerable == Len(DecodedItems) <= MaxItems

\* total of a field over the item positions in S, among the first i
RECURSIVE SubsetTotal(_, _, _, _)
SubsetTotal(items, S, i, f) ==
    IF i = 0 THEN 0
    ELSE SubsetTotal(items, S, i - 1, f)
         + (IF i \notin S THEN 0
            ELSE IF f = "weight" THEN items[i].weight ELSE items[i].value)

\* the maximum total value over all subsets of items that fit the capacity
ExactOptimum(items, capacity) ==
    LET n == Len(items)
        fits == { S \in SUBSET (1..n) :
                    SubsetTotal(items, S, n, "weight") <= capacity }
    IN  CHOOSE m \in { SubsetTotal(items, S, n, "value") : S \in fits } :
            \A S \in fits : SubsetTotal(items, S, n, "value") <= m

CandidateKnown == Decoded /\ AllKnown(DecodedItems, CandidateNames)

CandidateWeight ==
    SumField(DecodedItems, CandidateNames, Len(CandidateNames), "weight")

CandidateValue ==
    SumField(DecodedItems, CandidateNames, Len(CandidateNames), "value")

CandidateFeasible == CandidateKnown /\ CandidateWeight <= DecodedCapacity

OptimalityReturned == v_op = "verify_optimality" /\ ~v_result.raised
FeasibilityReturned == v_op = "verify_feasibility" /\ ~v_result.raised

\* C11: verify_optimality returns true if and only if the candidate is
\* feasible (every name known and total weight <= capacity) and its total
\* value equals the exact optimum; a candidate whose total weight exceeds the
\* capacity is never reported optimal.  Stated for problems whose items all
\* have their three fields and a positive weight, and calls that are granted
\* their DP table.
C11_OptimalIffFeasibleAndBest ==
    (/\ OptimalityReturned
     /\ Enumerable /\ WellFormedItems /\ PositiveWeights /\ TableGranted) =>
        /\ v_result.value
              <=> (CandidateFeasible
                   /\ CandidateValue = ExactOptimum(DecodedItems, DecodedCapacity))
        /\ (CandidateKnown /\ CandidateWeight > DecodedCapacity)
              => ~v_result.value

HasUnknownName ==
    /\ Decoded
    /\ \E k \in 1..Len(CandidateNames) : ~HasName(DecodedItems, CandidateNames[k])

\* C13: a candidate that contains at least one name that is not an item of
\* the problem is never reported feasible or optimal: verify_feasibility and
\* verify_optimality return false, and verify_comprehensive returns
\* is_feasible = false with status INFEASIBLE.
C13_UnknownNameNeverFeasible ==
    HasUnknownName =>
        /\ v_op \in {"verify_feasibility", "verify_optimality"}
              => (~v_result.raised /\ ~v_result.value)
        /\ v_op = "verify_comprehensive"
              => /\ v_outcome.kind = "outcome"
                 /\ ~v_outcome.is_feasible
                 /\ ~v_outcome.is_optimal
                 /\ v_outcome.status = "INFEASIBLE"

\* both texts of the call on record are non-empty, and the problem text lacks
\* the capacity marker or the items marker, or the candidate text is not valid
\* JSON, not a list, or a list with a non-string element
ListedDecodeFailure ==
    /\ ~v_problem.empty
    /\ v_solution # <<>>
    /\ \/ ~v_problem.capMarker
       \/ ~v_problem.itemsMarker
       \/ json_loads(v_solution).j \in {"invalid", "notlist", "nonstr"}

C15_ComprehensiveNeverRaises ==
    (v_op = "verify_comprehensive" /\ ~v_problem.empty /\ v_solution # <<>>) =>
        /\ v_outcome.kind = "outcome"
        /\ (parse_problem(v_problem).ok /\ ~WellFormedItems)
              => ~v_outcome.is_feasible

\* ================================== properties of the dynamic program
\* the solver's arguments are a Problem of the data model: capacity >= 0,
\* every weight positive, every value non-negative
KnapsackOfDataModel ==
    /\ k_capacity >= 0
    /\ \A i \in 1..Len(k_items) : k_items[i].weight > 0 /\ k_items[i].value >= 0

\* the problem text _generate_data writes for the solver's arguments, and the
\* text of the empty candidate
GeneratedText == ProblemText(k_capacity, k_items)
EmptyCandidate == <<JsonList(<<>>)>>

KnapsackTableGranted == ~AllocFails(Len(k_items), k_capacity)

\* the solver has filled its table
KnapsackFilled == k_pc \in {"backtrack", "done"} /\ k_items # <<>>

\* C16: for every problem with non-negative capacity, positive item weights
\* and non-negative item values whose DP table is granted, the optimum the
\* dynamic program computes (computed_optimum in verify_comprehensive,
\* optimal_value in verify_optimality, max_val in _solve_knapsack) equals the
\* maximum total value over all subsets of items whose total weight is
\* <= capacity.
C16_DpEqualsExhaustiveOptimum ==
    (k_pc # "idle" /\ KnapsackOfDataModel /\ KnapsackTableGranted) =>
        LET best == ExactOptimum(k_items, k_capacity)
        IN  /\ verify_comprehensive(GeneratedText, EmptyCandidate, "None")
                  .computed_optimum = best
            /\ compute_optimal_value(k_items, k_capacity) = best
            /\ KnapsackFilled => k_max_val = best

\* the solver filled a table for two items that do not fit together, the
\* lighter of which is worth less
C16_Witness ==
    /\ KnapsackFilled
    /\ KnapsackOfDataModel
    /\ Len(k_items) = 2
    /\ k_items[1].weight + k_items[2].weight > k_capacity
    /\ k_items[1].weight < k_items[2].weight
    /\ k_items[1].value < k_items[2].value
    /\ k_items[2].weight <= k_capacity
    /\ k_max_val = k_items[2].value

\* the items whose name is in the returned selection, and their totals
SelectedPositions ==
    { i \in 1..Len(k_items) :
        \E k \in 1..Len(k_selected) : k_selected[k] = k_items[i].name }

SelectedWeight == SubsetTotal(k_items, SelectedPositions, Len(k_items), "weight")
SelectedValue == SubsetTotal(k_items, SelectedPositions, Len(k_items), "value")

\* C17: the selection _solve_knapsack returns contains each item at most
\* once, has total weight <= capacity, and has total value equal to the
\* table's optimum dp[n][capacity]; during reconstruction the remaining
\* capacity w never becomes negative.
C17_SelectionFeasibleAndOptimal ==
    /\ k_pc \in {"backtrack", "done"} => k_w >= 0
    /\ k_pc = "done" =>
          /\ \A a, b \in 1..Len(k_selected) :
                k_selected[a] = k_selected[b] => a = b
          /\ SelectedWeight <= k_capacity
          /\ k_items # <<>> =>
                /\ SelectedValue
                      = cell(k_items, k_capacity, Len(k_items), k_capacity)
                /\ SelectedValue = k_max_val

\* a returned selection that takes one item and leaves another that would
\* have fitted alone
C17_Witness ==
    /\ k_pc = "done"
    /\ Len(k_items) = 2
    /\ Len(k_selected) = 1
    /\ \A i \in 1..2 : k_items[i].weight <= k_capacity
    /\ k_max_val > 0

\* C18: for a problem with zero items or with capacity 0, the exact optimum
\* is 0 and the empty selection is the solution: verify_optimality returns
\* true for the candidate [], verify_comprehensive returns status OPTIMAL with
\* gap 0 for it, and the solver yields optimum 0 with the empty selection
\* rather than an error.
C18_EmptyProblemHasEmptySolution ==
    (/\ k_pc \in {"done", "raised"}
     /\ KnapsackOfDataModel
     /\ k_capacity <= MAX_CAPACITY
     /\ k_items = <<>> \/ k_capacity = 0) =>
        /\ ExactOptimum(k_items, k_capacity) = 0
        /\ verify_optimality(GeneratedText, EmptyCandidate) = Returns(TRUE)
        /\ LET r == verify_comprehensive(GeneratedText, EmptyCandidate, "None")
           IN  r.kind = "outcome" /\ r.status = "OPTIMAL" /\ r.gap = 0
        /\ k_pc = "done"
        /\ k_selected = <<>>
        /\ k_max_val = 0

\* ======================================== properties of the validation
\* the candidate text on record is a list of strings that repeats a name
DuplicateCandidate ==
    /\ v_solution # <<>>
    /\ json_loads(v_solution).j = "list"
    /\ has_duplicates(json_loads(v_solution).names)

\* C19: a candidate that lists the same item name more than once is treated
\* as a validation error by every operation that decodes candidates:
\* validate_solution reports it invalid, and verify_feasibility,
\* verify_optimality and verify_comprehensive never report it feasible or
\* optimal.
C19_DuplicateNamesRejected ==
    DuplicateCandidate =>
        /\ v_op = "validate_solution" => ~v_validation.is_valid
        /\ v_op \in {"verify_feasibility", "verify_optimality"}
              => ~v_result.value
        /\ v_op = "verify_comprehensive"
              => (~v_outcome.is_feasible /\ ~v_outcome.is_optimal)

\* the problem text on record has both markers and a JSON item array, and
\* its capacity or its item count is above the hard limit
OverLimit ==
    /\ parse_problem(v_problem).ok
    /\ \/ DecodedCapacity > MAX_CAPACITY
       \/ Len(DecodedItems) > MAX_ITEMS

\* C20: a problem whose capacity exceeds 100,000 or whose item list has more
\* than 1,000 items is rejected with an error before any DP table is
\* allocated or filled, on every path that solves: validate_problem_text
\* reports it invalid, the /solve handler does not call engine.solve for it,
\* and verify_optimality and verify_comprehensive do not run the DP on it.
C20_OverLimitRejectedBeforeTable ==
    OverLimit =>
        /\ v_op = "validate_problem_text" => ~v_validation.is_valid
        /\ v_op = "solve_problem"
              => (v_http.status = 400 /\ ~v_http.engine_called)
        /\ v_op = "verify_optimality"
              => /\ ~optimality_allocates(v_problem, v_solution)
                 /\ ~v_result.value
        /\ v_op = "verify_comprehensive"
              => /\ ~comprehensive_allocates(v_problem, v_solution)
                 /\ ~v_outcome.is_feasible
                 /\ ~v_outcome.is_optimal

\* ------------------------------------------- properties of the overflow guard
\* the candidate decodes, names items only, and its running total of field f
\* would pass 2**31 - 1
TotalWouldPass(f) ==
    /\ Decoded
    /\ WellFormedItems
    /\ CandidateKnown
    /\ Overflows(parse_problem(v_problem), CandidateNames, Len(CandidateNames), f)

\* C21: when adding the next selected item would push the running total of
\* weights (verify_feasibility) or values (verify_optimality) above 2**31 - 1
\* the function returns false, and verify_comprehensive reports a failure
\* (is_feasible = false or is_optimal = false) instead of an outcome computed
\* from a total above 2**31 - 1.
C21_NoOutcomeFromTotalsAboveIntMax ==
    /\ (FeasibilityReturned /\ TotalWouldPass("weight")) => ~v_result.value
    /\ (OptimalityReturned /\ TotalWouldPass("value")) => ~v_result.value
    /\ (ComprehensiveReturned
        /\ (TotalWouldPass("weight") \/ TotalWouldPass("value")))
          => (~v_outcome.is_feasible \/ ~v_outcome.is_optimal)

\* ------------------------------------------- properties of the deadline alarm
\* C22: if the alarm armed by verify_feasibility or verify_optimality fires
\* while it is armed, wherever the call is, the call returns false: the
\* TimeoutError never leaves the verifier and the body takes no further step;
\* and every entry point that runs the DP is under such a deadline (where
\* signals work, its body runs with the alarm armed until the alarm fires).
C22_FiredDeadlineReturnsFalse ==
    /\ (a_pc = "exited" /\ a_fired # "") => a_exit = "False"
    /\ a_exit # "TimeoutError"
    /\ a_fired # "" => a_pc # "body"
    /\ (a_pc = "body" /\ a_signals /\ a_fired = "") => a_armed

\* C30: on every exit of verify_feasibility and verify_optimality the alarm the
\* call armed is no longer pending, so a pending alarm always belongs to the
\* call in progress and none is pending between calls or in a later call.
C30_AlarmCancelledOnEveryExit ==
    /\ a_pc \in {"exited", "call", "arm"} => ~a_armed
    /\ a_armed => (a_owner = a_call /\ HasDeadline(a_op))
    /\ (a_fired # "") => a_fired \in {"armed", "body", "except_TimeoutError",
                                     "except_ValueError", "except_Exception",
                                     "finally"}

\* a second call that armed the alarm returned through its finally clause
C30_Witness ==
    /\ a_pc = "exited"
    /\ a_call = 2
    /\ HasDeadline(a_op)
    /\ a_signals
    /\ a_exit \in {"True", "ValueError"}
    /\ a_fired = ""

\* -------------------------------------------- properties of the argument check
\* C23: verify_feasibility, verify_optimality and verify_comprehensive raise
\* ValueError when problem_text or solution_data is empty, and for every other
\* string input verify_feasibility and verify_optimality return a boolean.
C23_RaisesOnlyOnEmptyInput ==
    /\ v_op \in {"verify_feasibility", "verify_optimality"}
         => (v_result.raised <=> (v_problem.empty \/ v_solution = <<>>))
    /\ (v_op = "verify_comprehensive" /\ (v_problem.empty \/ v_solution = <<>>))
         => v_outcome.kind = "ValueError"

\* ------------------------------------------------ properties of parse_output
\* the text has an opening tag of the section followed later by its closing tag
HasSection(text, key) ==
    \E i \in 1..Len(text) : \E c \in (i + 1)..Len(text) :
        text[i] = Open(key) /\ text[c] = Close(key)

\* the first opening tag of the section that a closing tag follows is
\* followed by nothing but whitespace up to the first closing tag
HasEmptySection(text, key) ==
    \E i \in 1..Len(text) : \E c \in (i + 1)..Len(text) :
        /\ text[i] = Open(key)
        /\ text[c] = Close(key)
        /\ \A j \in 1..(i - 1) : text[j] = Open(key) => ~HasSection(SubSeq(text, j, Len(text)), key)
        /\ \A j \in (i + 1)..(c - 1) : text[j] = Ws

SevenKeysByPresence(text, parsed) ==
    /\ DOMAIN parsed = SectionNames
    /\ Cardinality(DOMAIN parsed) = 7
    /\ \A key \in SectionNames :
          /\ ~parsed[key].present <=> ~HasSection(text, key)
          /\ HasEmptySection(text, key) => parsed[key] = Section(<<>>)

\* C24: parse_output returns a map with exactly the seven keys; a key's value
\* is None if and only if the text has no opening tag followed later by the
\* matching closing tag of that section, whatever the other sections are, and
\* a section that is present but empty is the empty string, not None.
C24_SevenKeysNoneIffNoSection ==
    o_pc = "done" =>
        /\ ~o_result.raised
        /\ SevenKeysByPresence(o_text, o_result.parsed)

\* C24 (amended): for an output_text of at most MAX_OUTPUT_LENGTH (1 MiB)
\* parse_output returns a map with exactly the seven keys; a key's value is
\* None if and only if the text has no opening tag followed later by the
\* matching closing tag of that section, whatever the other sections are, and
\* a section that is present but empty is the empty string, not None.  A
\* longer output_text makes parse_output raise ValueError.
C24_SevenKeysNoneIffNoSectionWithinLimit ==
    o_pc = "done" =>
        /\ o_result.raised <=> TooLong(o_text)
        /\ ~TooLong(o_text) => SevenKeysByPresence(o_text, o_result.parsed)

\* one section is present but empty, another has an opening tag only
C24_Witness ==
    /\ o_pc = "done"
    /\ ~o_result.raised
    /\ HasEmptySection(o_text, "answer")
    /\ o_result.parsed["answer"] = Section(<<>>)
    /\ \E i \in 1..Len(o_text) : o_text[i] = Open("reasoning")
    /\ ~o_result.parsed["reasoning"].present

\* ------------------------------------- properties of the retry loop, continued
\* every attempt of the budget was made and none of them scored above 0
AllAttemptsScoredZero ==
    /\ pc = "done"
    /\ max_retries > 0
    /\ Len(hist) = max_retries
    /\ \A k \in 1..Len(hist) : hist[k].score = 0

\* C25: if all max_retries attempts complete and every one scored 0, by raising
\* or by returning output without an answer section, solve returns the
\* canonical empty record (raw_output empty, parsed empty, all flags false)
\* and not the record of one of the attempts.
C25_NoAnswerReturnsEmptyRecord ==
    AllAttemptsScoredZero => returned = Some(empty_result(max_retries))

\* C26: the first generator call of solve has no temperature argument, every
\* later call has exactly the temperature passed to solve, and every call
\* gets the same prompt, format_input(problem_text), and nothing else.
C26_GreedyFirstThenTemperature ==
    \A k \in 1..Len(gen_log) :
        /\ gen_log[k].prompts = <<format_input(problem_text)>>
        /\ k = 1 => gen_log[k].kwargs = {}
        /\ k > 1 => gen_log[k].kwargs = {<<"temperature", temperature>>}

\* three calls were made with a temperature that is not the default
C26_Witness ==
    /\ Len(gen_log) = 3
    /\ temperature # DefaultTemperature
    /\ gen_log[1].kwargs = {}
    /\ gen_log[3].kwargs = {<<"temperature", temperature>>}

\* --------------------------------------- properties of the item validation
\* the positions of the items that lack a field, or whose weight is not
\* positive or whose value is negative
OffendingItems(items) == { i \in 1..Len(items) : item_errors(items, i) # {} }

\* the problem text has a capacity and an item array of a permitted length
\* with at least one offending item
HasOffendingItem ==
    /\ v_pc = "done"
    /\ v_problem.capMarker
    /\ v_problem.itemsMarker
    /\ v_problem.itemsJson
    /\ Len(v_problem.items) \in 1..MAX_ITEMS
    /\ OffendingItems(v_problem.items) # {}

\* C27: a problem whose item array (of 1 to 1,000 items) holds an item that
\* lacks name, weight or value, or whose weight is not positive or whose value
\* is negative, is reported with one error per offending item: it is never
\* valid for validate_problem_text and never decoded by the verifier.
C27_OffendingItemIsRejected ==
    HasOffendingItem =>
        /\ v_op = "validate_problem_text" =>
              /\ ~v_validation.is_valid
              /\ \A i \in OffendingItems(v_problem.items) :
                    Cardinality({ e \in v_validation.errors : e[2] = i }) = 1
        /\ ~parse_problem(v_problem).ok

\* ------------------------------- properties of the flags solve records
\* the attempts that did not raise and whose answer section is not empty
Answered ==
    { k \in NonRaised : /\ hist[k].result.parsed["answer"].present
                        /\ hist[k].result.parsed["answer"].text # <<>> }

\* C28: for every problem text and non-empty answer text, the flags solve
\* records for an attempt agree with verify_comprehensive on the same inputs:
\* feasible equals is_feasible, verified equals is_optimal, and the recorded
\* optimal flag is never true while the feasible flag is false.
C28_FlagsAgreeWithComprehensive ==
    \A k \in Answered :
        LET r == hist[k].result
            c == verify_comprehensive(problem_text, r.parsed["answer"].text,
                                      "None")
        IN  /\ c.kind = "outcome"
            /\ r.verification.feasible = c.is_feasible
            /\ r.verification.verified = c.is_optimal
            /\ r.verification.optimal => r.verification.feasible

\* the ranking verified > feasible > parsed of an attempt that did not raise
Rank(r) ==
    IF r.verification.verified THEN 3
    ELSE IF r.verification.feasible THEN 2
    ELSE IF r.parsed["answer"].present THEN 1
    ELSE 0

\* C29: when solve exhausts max_retries without a verified attempt, the
\* returned record respects the ranking verified > feasible > parsed: if some
\* attempt that did not raise was feasible the returned record is feasible,
\* and the recorded attempt ranks strictly above every earlier attempt that
\* did not raise (a later attempt replaces it only when strictly better).
C29_ReturnedRecordRespectsRanking ==
    /\ (/\ pc = "done"
        /\ Len(hist) = max_retries
        /\ \A k \in 1..Len(hist) : ~IsVerified(hist[k])
        /\ \E k \in NonRaised : hist[k].result.verification.feasible)
          => returned.rec.verification.feasible
    /\ best_result.some =>
          \A m \in NonRaised :
              m < best_result.rec.attempt
                  => Rank(hist[m].result) < Rank(best_result.rec)

====
